---- MODULE Spec2Model ----
(***************************************************************************)
(* Model of the session manager (app/src/lib/server/session-manager.ts)    *)
(* and of the per-connection WebSocket handler (ws-handler.ts) that drives *)
(* it.  One action per handler / callback; the Agent SDK, the timers and   *)
(* the sockets are the environment.                                        *)
(***************************************************************************)
EXTENDS Integers, Sequences, FiniteSets, TLC

\* ------------------------------------------------------------------ bounds
MaxClients == 2
MaxToolUses == 2
MaxSessions == 2
MaxMsgs == 2
MaxContent == 1
MaxCost == 1
MaxTurns == 1
MaxRoutines == 2
TicksPerTimeout == 1
MaxSteps == 5
MaxTokens == 2
MaxScenarioSteps == 7
MaxRequests == 2
MaxSkewMs == 1
MaxHours == 1
MaxPushes == 202

\* --------------------------------------------------------- program constants
PERMISSION_TIMEOUT_MS == 5 * 60 * 1000
OPEN == 1
CLOSED == 3

TICKET_TTL_MS == 30000
REFRESH_THRESHOLD_S == 30 * 60

TickMs == PERMISSION_TIMEOUT_MS \div TicksPerTimeout

Clients == 1..MaxClients
ToolUseIds == 1..MaxToolUses
SessionIds == 1..MaxSessions
Contents == 1..MaxContent
Costs == 0..MaxCost

NoTimer == -1
NoSession == 0
NoExpiry == -1
RING_SIZE == 200

VARIABLES
    state,               \* SessionManager.state
    clients,             \* SessionManager.clients
    pendingPermissions,  \* SessionManager.pendingPermissions (its key set)
    abortController,     \* "null" | "live" | "aborted"
    activeDbSessionId,   \* NoSession or a session id
    totalCostUsd,        \* SessionManager.totalCostUsd
    enqueueUserMessage,  \* NoSession (null) or the session id its closure captured
    messageQueue,        \* _runSdkLoop: messageQueue
    resolveNext,         \* _runSdkLoop: resolveNext # null
    closed,              \* _runSdkLoop: closed
    turnCount,           \* _runSdkLoop: turnCount
    loops,               \* sessions whose for-await loop in _runSdkLoop is live
    timers,              \* per tool-use id: NoTimer, or ms elapsed since setTimeout
    db,                  \* sessions table: id -> row
    nextUuid,            \* number of session ids handed out by randomUUID
    readyState,          \* per connection: 0 = no such connection, OPEN, CLOSED
    sendRaises,          \* per connection: does ws.send throw
    handlers,            \* per connection: message/close callbacks installed
    closeSeen,           \* connections still referenced whose close event has been emitted
    refreshing,          \* start routines suspended at await refreshAccessToken
    starting,            \* start routine suspended at await startSession
    permResult,          \* per tool-use id: what the Agent's callback promise holds
    resolveCalls,        \* per tool-use id: calls of resolve() on its promise
    usedIds,             \* tool-use ids the Agent has asked about in this session
    delivered,           \* user turns the Agent has read in this session
    config,              \* config table: the stored OAuth token entries
    tokensIssued,        \* access tokens the upstream token endpoint has handed out
    agentToken,          \* CLAUDE_CODE_OAUTH_TOKEN in the env of the last query()
    now,                 \* the last value Date.now() returned
    secret,              \* process.env.APP_SECRET
    recording,           \* is the run being recorded (never changes)
    received,            \* recorded run: every event connection 1 was sent, in order
    trace,               \* recorded run: every step taken, in order
    ring,                \* debug-logger.ts: ring, as the buffer's own operations see it
    lastState,           \* per connection registered and open: state of the last session_state sent
    steps,               \* number of steps taken so far
    out,                 \* per connection: events passed to send() in the last step
    act                  \* the last step taken

vars == << state, clients, pendingPermissions, abortController, activeDbSessionId,
           totalCostUsd, enqueueUserMessage, messageQueue, resolveNext, closed,
           turnCount, loops, timers, db, nextUuid, readyState, sendRaises, handlers,
           closeSeen, refreshing, starting, permResult, resolveCalls, usedIds, delivered,
           config, tokensIssued, agentToken, now, secret, recording, received, trace,
           ring, lastState, steps, out, act >>

mgrVars == << state, clients, pendingPermissions, abortController, activeDbSessionId,
              totalCostUsd, enqueueUserMessage >>
loopVars == << messageQueue, resolveNext, closed, turnCount, loops, delivered >>
permGhost == << permResult, resolveCalls, usedIds >>
connVars == << readyState, sendRaises, handlers, closeSeen >>
routineVars == << refreshing, starting >>
tokenVars == << config, tokensIssued, agentToken >>

NoRoutine == [ws |-> 0, content |-> 0]
NoRow == [status |-> "absent", ended |-> FALSE, turnCount |-> 0, costUsd |-> 0]
Quiet == [c \in Clients |-> << >>]

\* Crypto: encrypt wraps the plain text, decrypt unwraps it (decrypt(encrypt(p)) = p).
encrypt(plain) == [enc |-> plain]
decrypt(encoded) == encoded.enc

\* The config table, one field per known key.  Absent: the key has no row
\* (NoExpiry for the two instants, which are milliseconds); Row(v): its row holds v.
Absent == << >>
Row(value) == << value >>
EmptyConfig ==
    [claude_oauth_token |-> Absent, claude_refresh_token |-> Absent,
     claude_token_expires_at |-> NoExpiry, claude_token_refreshed_at |-> NoExpiry,
     setup_complete |-> Absent, oauth_pending_state |-> Absent,
     oauth_pending_verifier |-> Absent]

\* An OAuthTokens record; refreshToken 0 is `undefined`.  NoTokens is the null
\* that loadTokens returns.
NoTokens == [accessToken |-> 0, refreshToken |-> 0, expiresAt |-> NoExpiry,
             refreshedAt |-> NoExpiry]

\* loadTokens(): null without an access token; a missing expiry reads as the
\* epoch and a missing refreshed-at as the expiry.
loadTokens(cfg) ==
    IF cfg.claude_oauth_token = Absent THEN NoTokens
    ELSE LET expiresAt == IF cfg.claude_token_expires_at = NoExpiry THEN 0
                          ELSE cfg.claude_token_expires_at
         IN [accessToken |-> decrypt(cfg.claude_oauth_token[1]),
             expiresAt |-> expiresAt,
             refreshedAt |-> IF cfg.claude_token_refreshed_at = NoExpiry THEN expiresAt
                             ELSE cfg.claude_token_refreshed_at,
             refreshToken |-> IF cfg.claude_refresh_token = Absent THEN 0
                              ELSE decrypt(cfg.claude_refresh_token[1])]

\* storeTokens(tokens): the refresh token row is written only when the record
\* has a refresh token, and no row is ever deleted.
storeTokens(cfg, tokens) ==
    [cfg EXCEPT !.claude_oauth_token = Row(encrypt(tokens.accessToken)),
                !.claude_token_expires_at = tokens.expiresAt,
                !.claude_token_refreshed_at = tokens.refreshedAt,
                !.claude_refresh_token =
                    IF tokens.refreshToken # 0 THEN Row(encrypt(tokens.refreshToken))
                    ELSE @]

\* The table after setup stored the given tokens at instant 0.
SetUpWith(accessToken, refreshToken, expiresAt) ==
    [storeTokens(EmptyConfig, [accessToken |-> accessToken, refreshToken |-> refreshToken,
                               expiresAt |-> expiresAt, refreshedAt |-> 0])
        EXCEPT !.setup_complete = Row("true")]
InitialConfigs ==
    {EmptyConfig,
     SetUpWith(1, 1, 10 * 60 * 1000),
     SetUpWith(1, 0, 10 * 60 * 1000),
     SetUpWith(1, 1, REFRESH_THRESHOLD_S * 1000)}

\* ------------------------------------------------------------------ events
StateMsg(s) == [type |-> "session_state", state |-> s]
CostMsg(c) == [type |-> "cost", totalUsd |-> c]
TextMsg == [type |-> "text"]
ToolStartMsg(id) == [type |-> "tool_start", toolUseId |-> id]
PermissionRequestMsg(id) == [type |-> "permission_request", id |-> id]
ErrorMsg(m) == [type |-> "error", message |-> m]

\* client.send(data) outside any try/catch: the call either raises or hands
\* the event to the connection.
Send(o, c, msg) == IF sendRaises[c] THEN o ELSE [o EXCEPT ![c] = Append(@, msg)]

\* One iteration of the loop in broadcast(): readyState test, send, catch.
BroadcastOne(o, c, msg) ==
    IF readyState[c] = OPEN THEN Send(o, c, msg) ELSE o

\* broadcast() without its try/catch: the first throwing send ends the loop.
RECURSIVE BroadcastLoop_NoCatch(_, _, _)
BroadcastLoop_NoCatch(S, o, msg) ==
    IF S = {} THEN o
    ELSE LET c == CHOOSE x \in S : \A y \in S : x <= y
         IN IF readyState[c] = OPEN /\ sendRaises[c] THEN o
            ELSE BroadcastLoop_NoCatch(S \ {c}, BroadcastOne(o, c, msg), msg)

\* for (const client of this.clients) { try { ... } catch {} }
RECURSIVE BroadcastLoop(_, _, _)
BroadcastLoop(S, o, msg) ==
    IF S = {} THEN o
    ELSE LET c == CHOOSE x \in S : \A y \in S : x <= y
         IN BroadcastLoop(S \ {c}, BroadcastOne(o, c, msg), msg)

broadcast(o, msg) == BroadcastLoop(clients, o, msg)

\* setState(next): assignment plus broadcast; the assignment is made by the caller.
setState_Silent(o, next) == o

setState(o, next) == broadcast(o, StateMsg(next))

Init0 ==
    /\ state = "idle"
    /\ clients = {}
    /\ pendingPermissions = {}
    /\ abortController = "null"
    /\ activeDbSessionId = NoSession
    /\ totalCostUsd = 0
    /\ enqueueUserMessage = NoSession
    /\ messageQueue = << >>
    /\ resolveNext = FALSE
    /\ closed = FALSE
    /\ turnCount = 0
    /\ loops = {}
    /\ timers = [i \in ToolUseIds |-> NoTimer]
    /\ db = [s \in SessionIds |-> NoRow]
    /\ nextUuid = 0
    /\ readyState = [c \in Clients |-> 0]
    /\ sendRaises = [c \in Clients |-> FALSE]
    /\ handlers = [c \in Clients |-> FALSE]
    /\ closeSeen = {}
    /\ refreshing = {}
    /\ starting = NoRoutine
    /\ permResult = [i \in ToolUseIds |-> "none"]
    /\ resolveCalls = [i \in ToolUseIds |-> 0]
    /\ usedIds = {}
    /\ delivered = << >>
    /\ tokensIssued = 1
    /\ agentToken = 0
    /\ now = 0
    /\ received = << >>
    /\ trace = << >>
    /\ ring = << >>
    /\ lastState = [c \in Clients |-> "none"]
    /\ steps = 0
    /\ out = Quiet
    /\ act = [name |-> "init"]

\* A process with a usable APP_SECRET and whatever tokens setup left behind.
Init ==
    /\ Init0
    /\ config \in InitialConfigs
    /\ secret = [id |-> 1, len |-> 32]
    /\ recording = FALSE

\* No macrotask (frame, timer, socket event, Agent output) runs between the
\* return of startSession and the continuation of `await startSession`.
Settled == starting = NoRoutine

\* Every step that is a choice of the environment or of the scheduler spends
\* one unit of the step budget; a continuation that must run next is free.
Budget ==
    /\ steps < (IF recording THEN MaxScenarioSteps ELSE MaxSteps)
    /\ steps' = steps + 1

\* The recorder of a recorded run; APP_SECRET is read-only.
\* The session_state events among the events of one step, in order.
StateEvents(events) == SelectSeq(events, LAMBDA e : e.type = "session_state")

\* The state carried by the last session_state event of the step, if any.
LastShown(events, before) ==
    IF StateEvents(events) = << >> THEN before
    ELSE StateEvents(events)[Len(StateEvents(events))].state

Observe ==
    /\ UNCHANGED << secret, recording, ring >>
    /\ received' = IF recording THEN received \o out'[1] ELSE received
    /\ trace' = IF recording THEN Append(trace, act') ELSE trace
    /\ lastState' = [c \in Clients |->
           IF c \in clients' /\ readyState'[c] = OPEN
           THEN LastShown(out'[c], lastState[c]) ELSE "none"]

SendsCost_NonNegative(cost) == cost >= 0

\* Is the cost event part of what addClient sends.
SendsCost(cost) == cost > 0

addClientEvents_CostOnly(s, cost) ==
    IF SendsCost(cost) THEN << CostMsg(cost) >> ELSE << >>

\* The events addClient sends to the new connection, in order.
addClientEvents(s, cost) ==
    IF SendsCost(cost) THEN << StateMsg(s), CostMsg(cost) >> ELSE << StateMsg(s) >>

\* A routine started for an earlier connection still holds that connection.
HeldByRoutine(c) == starting.ws = c \/ \E r \in refreshing : r.ws = c

\* Connections are interchangeable: a new one takes the lowest id that no
\* connection, subscriber entry or start routine still uses.
FreeConnections == {c \in Clients : readyState[c] = 0 /\ c \notin clients /\ ~HeldByRoutine(c)}
NewConnection == IF FreeConnections = {} THEN 0
                 ELSE CHOOSE c \in FreeConnections : \A d \in FreeConnections : c <= d

\* handleWsConnection(ws, on, once): addClient(ws), then on('message') and
\* once('close').  A throw of ws.send leaves addClient, and the handler,
\* before the callbacks are installed.
handleWsConnection(c, rs, raises) ==
    /\ readyState' = [readyState EXCEPT ![c] = rs]
    /\ sendRaises' = [sendRaises EXCEPT ![c] = raises]
    /\ clients' = clients \cup {c}
    /\ out' = IF raises THEN Quiet
              ELSE [Quiet EXCEPT ![c] = addClientEvents(state, totalCostUsd)]
    /\ handlers' = [handlers EXCEPT ![c] = ~raises]
    /\ UNCHANGED << state, pendingPermissions, abortController, activeDbSessionId,
                    totalCostUsd, enqueueUserMessage, loopVars, timers, db, nextUuid,
                    closeSeen, routineVars, permGhost >>

\* wss.on('connection') for the socket of an upgrade that passed the checks
\* of the upgrade handler.
Connect(c, rs, raises) ==
    /\ Budget
    /\ Settled
    /\ c = NewConnection
    /\ handleWsConnection(c, rs, raises)
    /\ act' = [name |-> "Connect", ws |-> c]
    /\ UNCHANGED << tokenVars, now >>
    /\ Observe

\* The socket leaves the OPEN state (peer closed, network error); the close
\* event has not been dispatched yet.
SocketClose(c) ==
    /\ Budget
    /\ Settled
    /\ readyState[c] = OPEN
    /\ readyState' = [readyState EXCEPT ![c] = CLOSED]
    /\ out' = Quiet
    /\ act' = [name |-> "SocketClose", ws |-> c]
    /\ UNCHANGED << mgrVars, loopVars, timers, db, nextUuid, sendRaises, handlers,
                    closeSeen, routineVars, permGhost >>
    /\ UNCHANGED << tokenVars, now >>
    /\ Observe

removeClient(S, c) == S \ {c}

\* The socket emits 'close'.  The callback installed by once('close') calls
\* removeClient(ws); a connection whose callbacks were never installed has none.
CloseEvent(c) ==
    /\ Budget
    /\ Settled
    /\ readyState[c] = CLOSED
    /\ c \notin closeSeen
    /\ IF handlers[c]
       THEN /\ clients' = removeClient(clients, c)
            /\ readyState' = [readyState EXCEPT ![c] = 0]
            /\ sendRaises' = [sendRaises EXCEPT ![c] = FALSE]
            /\ handlers' = [handlers EXCEPT ![c] = FALSE]
            /\ UNCHANGED closeSeen
       ELSE /\ closeSeen' = closeSeen \cup {c}
            /\ UNCHANGED << clients, readyState, sendRaises, handlers >>
    /\ out' = Quiet
    /\ act' = [name |-> "CloseEvent", ws |-> c]
    /\ UNCHANGED << state, pendingPermissions, abortController, activeDbSessionId,
                    totalCostUsd, enqueueUserMessage, loopVars, timers, db, nextUuid,
                    routineVars, permGhost >>
    /\ UNCHANGED << tokenVars, now >>
    /\ Observe

\* ---------------------------------------------------- strings, MACs, tokens
\* A string is a sequence of characters and a character a tuple of numbers:
\* <<0, d>> is the base-36 digit d, <<1>> the dot, <<2>> the underscore, and
\* <<3, ...>> stands for a whole base64url HMAC-SHA256 digest, naming the key
\* and the text it was computed from (two digests are equal only if both are).
Digit(d) == << 0, d >>
Dot == << 1 >>
Underscore == << 2 >>
NoToken == << >>
NaN == -1

RECURSIVE Flatten(_)
Flatten(text) ==
    IF text = << >> THEN << >>
    ELSE << Len(Head(text)) >> \o Head(text) \o Flatten(Tail(text))

\* createHmac('sha256', key).update(text).digest('base64url')
hmac(key, text) == << << 3, key.id, key.len >> \o Flatten(text) >>

\* Number.prototype.toString(36)
RECURSIVE toString36(_)
toString36(n) ==
    IF n < 36 THEN << Digit(n) >> ELSE Append(toString36(n \div 36), Digit(n % 36))

\* The value of the longest prefix of s made of digits of the radix; acc is
\* the value read so far, NaN before the first digit.
RECURSIVE ParseDigits(_, _, _)
ParseDigits(s, radix, acc) ==
    IF s = << >> \/ ~(Len(Head(s)) = 2 /\ Head(s)[1] = 0 /\ Head(s)[2] < radix) THEN acc
    ELSE ParseDigits(Tail(s), radix, (IF acc = NaN THEN 0 ELSE acc) * radix + Head(s)[2])

parseInt(s, radix) == ParseDigits(s, radix, NaN)

\* Positions count from 1; 0 is "not found" (-1 in the source).
indexOf(s, ch) ==
    IF \E i \in 1..Len(s) : s[i] = ch
    THEN CHOOSE i \in 1..Len(s) : s[i] = ch /\ \A j \in 1..(i - 1) : s[j] # ch
    ELSE 0
lastIndexOf(s, ch) ==
    IF \E i \in 1..Len(s) : s[i] = ch
    THEN CHOOSE i \in 1..Len(s) : s[i] = ch /\ \A j \in (i + 1)..Len(s) : s[j] # ch
    ELSE 0

\* timingSafeEqual(Buffer.from(a), Buffer.from(b)) throws on a length mismatch.
timingSafeEqual(a, b) ==
    IF Len(a) # Len(b) THEN "throws" ELSE IF a = b THEN "true" ELSE "false"

\* createWsTicket() at nowMs with the given nonce, under APP_SECRET = key.
createWsTicket(key, nowMs, nonce) ==
    LET payload == toString36(nowMs) \o << Dot >> \o nonce
    IN payload \o << Dot >> \o hmac(key, payload)

WithinTtl_Inclusive(nowMs, ts) == nowMs - ts <= TICKET_TTL_MS

\* Date.now() - ts < TICKET_TTL_MS
WithinTtl(nowMs, ts) == nowMs - ts < TICKET_TTL_MS

isValidWsTicket(ticket, nowMs) ==
    LET lastDot == lastIndexOf(ticket, Dot)
        payload == SubSeq(ticket, 1, lastDot - 1)
        expected == payload \o << Dot >> \o hmac(secret, payload)
        firstDot == indexOf(payload, Dot)
        ts == parseInt(SubSeq(payload, 1, firstDot - 1), 36)
    IN IF secret.len = 0 \/ secret.len < 32 THEN FALSE
       ELSE IF lastDot = 0 THEN FALSE
       ELSE IF timingSafeEqual(ticket, expected) # "true" THEN FALSE
       ELSE IF firstDot = 0 THEN FALSE
       ELSE IF ts = NaN THEN FALSE
       ELSE WithinTtl(nowMs, ts)

SessionSecretOk_NonEmpty(key) == key.len # 0

\* ws-server.ts: if (!secret || secret.length < 32) return false
SessionSecretOk(key) == ~(key.len = 0 \/ key.len < 32)

\* ws-server.ts isValidSession(signed)
isValidSession(signed) ==
    LET dot == lastIndexOf(signed, Dot)
        token == SubSeq(signed, 1, dot - 1)
        expected == token \o << Dot >> \o hmac(secret, token)
    IN IF ~SessionSecretOk(secret) THEN FALSE
       ELSE IF dot = 0 THEN FALSE
       ELSE timingSafeEqual(signed, expected) = "true"

\* auth/session.ts sign(token) under APP_SECRET = key (createSession's cookie value).
sign(key, token) == token \o << Dot >> \o hmac(key, token)

\* auth/session.ts verify(signed): "token", "null", or "throws" when getSecret throws.
verify(signed) ==
    LET dot == lastIndexOf(signed, Dot)
        token == SubSeq(signed, 1, dot - 1)
    IN IF dot = 0 THEN "null"
       ELSE IF secret.len = 0 \/ secret.len < 32 THEN "throws"
       ELSE IF timingSafeEqual(signed, sign(secret, token)) = "true" THEN "token"
       ELSE "null"

\* auth/session.ts getSession(cookies): "true", "false" or "throws".
getSession(cookie) ==
    IF cookie = NoToken THEN "false"
    ELSE IF verify(cookie) = "throws" THEN "throws"
    ELSE IF verify(cookie) = "null" THEN "false"
    ELSE "true"

\* The session cookie if there is one, else the ?token= parameter.
extractSessionToken(cookie, query) == IF cookie # NoToken THEN cookie ELSE query


\* A request URL is a sequence of pieces; WS_PATH is '/api/ws'.
WS_PATH == << "/api", "/ws" >>
startsWith(url, prefix) ==
    Len(url) >= Len(prefix) /\ SubSeq(url, 1, Len(prefix)) = prefix

\* ------------------------------------------------- what a client can present
\* Values of APP_SECRET: absent, one character short, long enough; and a key
\* that is never the server's, for tokens signed by somebody else.
Secrets == {[id |-> 0, len |-> 0], [id |-> 1, len |-> 31], [id |-> 1, len |-> 32]}
ForeignKey == [id |-> 2, len |-> 32]
Nonce == << Underscore, Digit(7) >>
SessionBody == << Digit(10), Underscore >>
AuthClock == {0} \cup {TICKET_TTL_MS - 1 + k : k \in 0..MaxSkewMs}
TicketTimes == (0..MaxSkewMs) \cup {TICKET_TTL_MS - 1}

\* Cookie values and tickets as createSession and createWsTicket make them,
\* under the server's APP_SECRET and under the foreign key; tickets issued no
\* later than nowMs.
SessionValues == {sign(key, SessionBody) : key \in {secret, ForeignKey}}
TicketsBy(nowMs) ==
    {createWsTicket(key, t, Nonce) :
        key \in {secret, ForeignKey}, t \in {u \in TicketTimes : u <= nowMs}}

\* Strings made without the secret: no dot, a ticket that lost its MAC, a
\* ticket with a character appended, a ticket with another ticket's MAC.
Garbage ==
    {<< Digit(0), Underscore >>,
     toString36(0) \o << Dot >> \o Nonce \o << Dot >>,
     Append(createWsTicket(secret, 0, Nonce), Underscore),
     toString36(0) \o << Dot >> \o Nonce \o << Dot >> \o hmac(secret, SessionBody)}
Presented(nowMs) == {NoToken} \cup SessionValues \cup TicketsBy(nowMs) \cup Garbage


\* Arguments for a direct call of isValidWsTicket: everything above plus
\* strings with a MAC that verifies over a payload createWsTicket never makes
\* (empty timestamp, no nonce separator, a timestamp that is no number).
TicketArguments ==
    Garbage \cup SessionValues \cup TicketsBy(TICKET_TTL_MS + MaxSkewMs)
       \cup {p \o << Dot >> \o hmac(secret, p) :
                p \in {<< Dot >> \o Nonce, toString36(0), << Underscore, Dot >> \o Nonce}}

\* httpServer.on('upgrade'): path check, token extraction, validation, then
\* handleUpgrade and the 'connection' event.  act.response is what the server
\* answers: "none" (socket destroyed), "401", or "101" (upgraded).
Upgrade(url, cookie, query, nowMs, rs, raises) ==
    LET token == extractSessionToken(cookie, query)
    IN /\ Budget
       /\ Settled
       /\ nowMs >= now
       /\ now' = nowMs
       /\ IF ~startsWith(url, WS_PATH)
          THEN /\ act' = [name |-> "upgrade", url |-> url, response |-> "none"]
               /\ out' = Quiet
               /\ UNCHANGED << mgrVars, loopVars, timers, db, nextUuid, connVars,
                               routineVars, permGhost >>
          ELSE IF token = NoToken \/ ~(isValidSession(token) \/ isValidWsTicket(token, nowMs))
          THEN /\ act' = [name |-> "upgrade", url |-> url, response |-> "401",
                          cookie |-> cookie, query |-> query]
               /\ out' = Quiet
               /\ UNCHANGED << mgrVars, loopVars, timers, db, nextUuid, connVars,
                               routineVars, permGhost >>
          ELSE /\ NewConnection # 0
               /\ handleWsConnection(NewConnection, rs, raises)
               /\ act' = [name |-> "upgrade", url |-> url, response |-> "101",
                          cookie |-> cookie, query |-> query, ws |-> NewConnection]
       /\ UNCHANGED tokenVars
       /\ Observe

\* hooks.server.ts handle for a path that is not public: getSession(cookies).
HttpRequest(cookie) ==
    /\ Budget
    /\ Settled
    /\ act' = [name |-> "http", cookie |-> cookie, result |-> getSession(cookie)]
    /\ out' = Quiet
    /\ UNCHANGED << mgrVars, loopVars, timers, db, nextUuid, connVars, routineVars,
                    permGhost, tokenVars, now >>
    /\ Observe

\* A call isValidWsTicket(ticket) made at nowMs.
TicketCheck(ticket, nowMs) ==
    /\ Budget
    /\ Settled
    /\ nowMs >= now
    /\ now' = nowMs
    /\ act' = [name |-> "isValidWsTicket", ticket |-> ticket,
               result |-> isValidWsTicket(ticket, nowMs)]
    /\ out' = Quiet
    /\ UNCHANGED << mgrVars, loopVars, timers, db, nextUuid, connVars, routineVars,
                    permGhost, tokenVars >>
    /\ Observe

\* A promise settles on the first call of resolve; later calls do nothing.
Resolve(r, id, v) == IF r[id] = "waiting" THEN [r EXCEPT ![id] = v] ELSE r

DenyTimeout == "deny: Permission request timed out."
DenyEnded == "deny: Session ended."

IsPending_Any(id) == pendingPermissions # {}

IsPending(id) == id \in pendingPermissions

DeletePending_Keep(P, id) == P

DeletePending(P, id) == P \ {id}

clearTimeout(t, id) == [t EXCEPT ![id] = NoTimer]
ResponseResult(allow) == IF allow THEN "allow" ELSE "deny: User denied."

\* on('message') with a permission_response frame: handlePermissionResponse.
handlePermissionResponse(id, allow) ==
    IF ~IsPending(id)
    THEN /\ out' = Quiet
         /\ UNCHANGED << mgrVars, timers, permGhost >>
    ELSE /\ timers' = clearTimeout(timers, id)
         /\ pendingPermissions' = DeletePending(pendingPermissions, id)
         /\ state' = "running"
         /\ out' = setState(Quiet, "running")
         /\ permResult' = Resolve(permResult, id, ResponseResult(allow))
         /\ resolveCalls' = [resolveCalls EXCEPT ![id] = @ + 1]
         /\ UNCHANGED << clients, abortController, activeDbSessionId, totalCostUsd,
                         enqueueUserMessage, usedIds >>

CanReceive(c) == handlers[c] /\ readyState[c] = OPEN

RecvPermissionResponse(c, id, allow) ==
    /\ Budget
    /\ Settled
    /\ CanReceive(c)
    /\ handlePermissionResponse(id, allow)
    /\ act' = [name |-> "permission_response", id |-> id, allow |-> allow]
    /\ UNCHANGED << loopVars, db, nextUuid, connVars, routineVars >>
    /\ UNCHANGED << tokenVars, now >>
    /\ Observe

TimerDue_Leftover(id) == timers[id] = NoTimer \/ timers[id] >= PERMISSION_TIMEOUT_MS

TimerDue(id) == timers[id] # NoTimer /\ timers[id] >= PERMISSION_TIMEOUT_MS

\* The setTimeout callback of requestPermission.
Timeout(id) ==
    /\ Budget
    /\ Settled
    /\ TimerDue(id)
    /\ timers' = [timers EXCEPT ![id] = NoTimer]
    /\ pendingPermissions' = DeletePending(pendingPermissions, id)
    /\ state' = "running"
    /\ out' = setState(Quiet, "running")
    /\ permResult' = Resolve(permResult, id, DenyTimeout)
    /\ resolveCalls' = [resolveCalls EXCEPT ![id] = @ + 1]
    /\ act' = [name |-> "timeout", id |-> id]
    /\ UNCHANGED << clients, abortController, activeDbSessionId, totalCostUsd,
                    enqueueUserMessage, usedIds, loopVars, db, nextUuid, connVars,
                    routineVars >>
    /\ UNCHANGED << tokenVars, now >>
    /\ Observe

\* Time passes; a due timer fires before time passes further.
Tick ==
    /\ Budget
    /\ Settled
    /\ \E id \in ToolUseIds : timers[id] # NoTimer
    /\ \A id \in ToolUseIds : ~TimerDue(id)
    /\ timers' = [id \in ToolUseIds |->
                    IF timers[id] = NoTimer THEN NoTimer ELSE timers[id] + TickMs]
    /\ out' = Quiet
    /\ act' = [name |-> "tick"]
    /\ UNCHANGED << mgrVars, loopVars, db, nextUuid, connVars, routineVars, permGhost >>
    /\ UNCHANGED << tokenVars, now >>
    /\ Observe

\* interrupt(), reached from an interrupt frame and from DELETE /api/session.
\* act.handle is the abort handle the call found.
abort_Toggle(a) == IF a = "live" THEN "aborted" ELSE IF a = "aborted" THEN "live" ELSE "null"

\* this.abortController?.abort(): nothing without a handle; an aborted
\* signal stays aborted.
abort(a) == IF a = "null" THEN "null" ELSE "aborted"

Interrupt ==
    /\ Budget
    /\ Settled
    /\ abortController' = abort(abortController)
    /\ out' = Quiet
    /\ act' = [name |-> "interrupt", handle |-> abortController]
    /\ UNCHANGED << state, clients, pendingPermissions, activeDbSessionId, totalCostUsd,
                    enqueueUserMessage, loopVars, timers, db, nextUuid, connVars,
                    routineVars, permGhost >>
    /\ UNCHANGED << tokenVars, now >>
    /\ Observe

CanStart_NotRunning(s) == s # "running"

CanStart(s) == s \in {"idle", "done", "error"}
CanSend_RunningOnly(s) == s = "running"

CanSend(s) == s \in {"running", "waiting_permission"}

Enqueue_AlwaysBuffer(content) ==
    /\ messageQueue' = Append(messageQueue,
           [type |-> "user", content |-> content, session_id |-> enqueueUserMessage])
    /\ UNCHANGED << resolveNext, delivered >>

\* sendMessage(content) when neither guard throws: the closure stored in
\* _enqueueUserMessage hands the turn to a waiting reader or buffers it.
Enqueue(content) ==
    LET msg == [type |-> "user", content |-> content, session_id |-> enqueueUserMessage]
    IN IF resolveNext
       THEN /\ resolveNext' = FALSE
            /\ delivered' = Append(delivered, msg)
            /\ UNCHANGED messageQueue
       ELSE /\ messageQueue' = Append(messageQueue, msg)
            /\ UNCHANGED << resolveNext, delivered >>

\* The error sendMessage throws in the current state, "" when it does not throw.
SendMessageError ==
    IF ~CanSend(state) THEN "Cannot send message"
    ELSE IF enqueueUserMessage = NoSession THEN "No active session stream."
    ELSE ""

\* on('message') with a message frame while a session is active:
\* try { sendMessage } catch { ws.send(error) }.
RecvMessageForward(c, content) ==
    /\ Budget
    /\ Settled
    /\ CanReceive(c)
    /\ ~CanStart(state)
    /\ Len(messageQueue) + Len(delivered) < MaxMsgs
    /\ IF SendMessageError = ""
       THEN /\ Enqueue(content)
            /\ out' = Quiet
       ELSE /\ out' = Send(Quiet, c, ErrorMsg(SendMessageError))
            /\ UNCHANGED << messageQueue, resolveNext, delivered >>
    /\ act' = [name |-> "message", ws |-> c, content |-> content,
               error |-> SendMessageError]
    /\ UNCHANGED << mgrVars, closed, turnCount, loops, timers, db, nextUuid, connVars,
                    routineVars, permGhost >>
    /\ UNCHANGED << tokenVars, now >>
    /\ Observe

\* startSession(...) after its state guard has passed, together with the
\* synchronous prefix of _runSdkLoop (queue closure, query(), entry of the
\* for-await loop).
startSessionBody(oauthToken) ==
    LET sessionId == nextUuid + 1
    IN /\ nextUuid' = sessionId
       /\ agentToken' = oauthToken
       /\ activeDbSessionId' = sessionId
       /\ totalCostUsd' = 0
       /\ abortController' = "live"
       /\ db' = [db EXCEPT ![sessionId] =
                    [status |-> "running", ended |-> FALSE, turnCount |-> 0, costUsd |-> 0]]
       /\ state' = "running"
       /\ out' = setState(Quiet, "running")
       /\ enqueueUserMessage' = sessionId
       /\ messageQueue' = << >>
       /\ resolveNext' = FALSE
       /\ closed' = FALSE
       /\ turnCount' = 0
       /\ loops' = loops \cup {sessionId}
       /\ delivered' = << >>
       /\ usedIds' = {}
       /\ permResult' = [i \in ToolUseIds |-> "none"]
       /\ resolveCalls' = [i \in ToolUseIds |-> 0]
       /\ UNCHANGED << clients, pendingPermissions, timers >>

\* The tail of _startSessionAndSend for routine r: ensureContainerRunning(),
\* await startSession(tokens.accessToken, ...).  A throw is caught by the
\* caller's .catch, which sends the error to the originating connection only.
\* refreshed tells what the refresh step before it did: "none", "ok", "failed".
StartErrorOut_Broadcast(ws, message) == broadcast(Quiet, ErrorMsg(message))

\* _startSessionAndSend(...).catch: ws.send({type: 'error', message}) on the
\* connection whose message started the routine.
StartErrorOut(ws, message) == Send(Quiet, ws, ErrorMsg(message))

\* WRAPPER_PATH of the handler
WRAPPER_PATH == "WRAPPER_PATH"

\* The options _runSdkLoop(sessionId, oauthToken, vaultPath, wrapperPath) passes
\* to query(); controller is this.abortController at that moment.
queryOptions(oauthToken, vaultPath, wrapperPath, controller) ==
    [pathToClaudeCodeExecutable |-> wrapperPath,
     cwd |-> vaultPath,
     env |-> [CLAUDE_CODE_OAUTH_TOKEN |-> oauthToken],
     permissionMode |-> "default",
     abortController |-> controller,
     canUseTool |-> "requestPermission"]

Launch(r, oauthToken, refreshed, sandboxOk) ==
    IF ~sandboxOk
    THEN /\ out' = StartErrorOut(r.ws, "sandbox")
         /\ act' = [name |-> "start_failed", ws |-> r.ws, reason |-> "sandbox",
                    refreshed |-> refreshed]
         /\ UNCHANGED << mgrVars, loopVars, timers, db, nextUuid, permGhost, starting,
                         agentToken >>
    ELSE IF ~CanStart(state)
    THEN /\ out' = StartErrorOut(r.ws, "Cannot start session")
         /\ act' = [name |-> "startSession", ws |-> r.ws, result |-> "InvalidState",
                    token |-> oauthToken, refreshed |-> refreshed]
         /\ UNCHANGED << mgrVars, loopVars, timers, db, nextUuid, permGhost, starting,
                         agentToken >>
    ELSE /\ nextUuid < MaxSessions
         /\ startSessionBody(oauthToken)
         /\ starting' = [ws |-> r.ws, content |-> r.content]
         /\ act' = [name |-> "startSession", ws |-> r.ws, result |-> "started",
                    token |-> oauthToken, refreshed |-> refreshed,
                    \* startSession(tokens.accessToken, WRAPPER_PATH) binds the
                    \* parameters (oauthToken, vaultPath, wrapperPath)
                    options |-> queryOptions(oauthToken, WRAPPER_PATH, "undefined",
                                             abortController')]

needsRefresh(expiresAt, thresholdSeconds, nowMs) ==
    IF expiresAt = NoExpiry THEN TRUE
    ELSE expiresAt - nowMs < thresholdSeconds * 1000

\* The expires_in of a token response, in seconds: omitted, or short.
NoExpiresIn == -1
ExpiresIns == {NoExpiresIn, 60}

\* data.expires_in ?? 8 * 3600
expiresInOf(expires_in) ==
    IF expires_in = NoExpiresIn THEN 8 * 3600 ELSE expires_in

\* What refreshAccessToken resolves to on a 2xx answer read at nowMs: a new
\* access token, the refresh token it was called with (none rotated in).
refreshAccessToken(refreshToken, expires_in, nowMs) ==
    [accessToken |-> tokensIssued + 1,
     refreshToken |-> refreshToken,
     expiresAt |-> nowMs + expiresInOf(expires_in) * 1000,
     refreshedAt |-> nowMs]

RefreshedTokens_KeepOld(old, fresh) == old

\* tokens = await refreshAccessToken(tokens.refreshToken)
RefreshedTokens(old, fresh) == fresh

TokensAfterCatch_None(old) == NoTokens

\* catch (err) { ... }: the assignment `tokens = await ...` never happened, so
\* the routine goes on with the tokens it loaded.
TokensAfterCatch(old) == old

\* on('message') with a message frame in idle, done or error:
\* _startSessionAndSend up to its first suspension; each call is a routine of
\* its own (id tells two calls with equal arguments apart).  nowMs is what
\* Date.now() returns in needsRefresh; the clock never runs backwards.
RecvMessageStart(c, content, nowMs, sandboxOk) ==
    LET tokens == loadTokens(config)
        r == [ws |-> c, content |-> content, tokens |-> tokens, id |-> steps]
    IN /\ Budget
       /\ Settled
       /\ CanReceive(c)
       /\ CanStart(state)
       /\ IF tokens.accessToken = 0
          THEN /\ out' = StartErrorOut(c, "No Claude token configured")
               /\ act' = [name |-> "start_failed", ws |-> c, reason |-> "notoken"]
               /\ UNCHANGED << mgrVars, loopVars, timers, db, nextUuid, permGhost,
                               routineVars, agentToken >>
          ELSE IF needsRefresh(tokens.expiresAt, REFRESH_THRESHOLD_S, nowMs)
                  /\ tokens.refreshToken # 0
          THEN /\ Cardinality(refreshing) < MaxRoutines
               /\ refreshing' = refreshing \cup {r}
               /\ out' = Quiet
               /\ act' = [name |-> "refresh", ws |-> c]
               /\ UNCHANGED << mgrVars, loopVars, timers, db, nextUuid, permGhost,
                               starting, agentToken >>
          ELSE /\ Launch(r, tokens.accessToken, "none", sandboxOk)
               /\ UNCHANGED refreshing
       /\ nowMs >= now
       /\ now' = nowMs
       /\ UNCHANGED << connVars, config, tokensIssued >>
       /\ Observe

\* await refreshAccessToken settles: on success the routine goes on with the
\* new tokens and stores them; on failure it goes on with the ones it loaded.
RefreshDone(r, ok, expires_in, nowMs, sandboxOk) ==
    /\ Budget
    /\ Settled
    /\ r \in refreshing
    /\ refreshing' = refreshing \ {r}
    /\ IF ok
       THEN LET fresh == refreshAccessToken(r.tokens.refreshToken, expires_in, nowMs)
                tokens == RefreshedTokens(r.tokens, fresh)
            IN /\ tokensIssued < MaxTokens
               /\ tokensIssued' = tokensIssued + 1
               /\ config' = storeTokens(config, tokens)
               /\ Launch(r, tokens.accessToken, "ok", sandboxOk)
       ELSE /\ expires_in = NoExpiresIn
            /\ UNCHANGED << config, tokensIssued >>
            /\ Launch(r, TokensAfterCatch(r.tokens).accessToken, "failed", sandboxOk)
    /\ nowMs >= now
    /\ now' = nowMs
    /\ UNCHANGED connVars
    /\ Observe

\* The continuation of `await sessionManager.startSession(...)`:
\* sendMessage(firstMessage); a throw goes to the originating connection.
StartContinue ==
    /\ UNCHANGED steps
    /\ ~Settled
    /\ starting' = NoRoutine
    /\ IF SendMessageError = ""
       THEN /\ Enqueue(starting.content)
            /\ out' = Quiet
       ELSE /\ out' = StartErrorOut(starting.ws, SendMessageError)
            /\ UNCHANGED << messageQueue, resolveNext, delivered >>
    /\ act' = [name |-> "first_message", ws |-> starting.ws, content |-> starting.content,
               error |-> SendMessageError]
    /\ UNCHANGED << mgrVars, closed, turnCount, loops, timers, db, nextUuid, connVars,
                    refreshing, permGhost >>
    /\ UNCHANGED << tokenVars, now >>
    /\ Observe


\* Content blocks of an assistant record.
AssistantContents == {<< b >> : b \in {[type |-> "text", text |-> TRUE],
                                        [type |-> "text", text |-> FALSE],
                                        [type |-> "tool_use", id |-> 1]}}
                        \cup {<< [type |-> "text", text |-> TRUE], [type |-> "tool_use", id |-> 1] >>}

BroadcastBlock_TextOnly(o, b) ==
    IF b.type = "text" /\ b.text THEN broadcast(o, TextMsg) ELSE o

\* The body of `for (const block of msg.message.content)` for one block.
BroadcastBlock(o, b) ==
    IF b.type = "text" /\ b.text THEN broadcast(o, TextMsg)
    ELSE IF b.type = "tool_use" THEN broadcast(o, ToolStartMsg(b.id))
    ELSE o

RECURSIVE BroadcastBlocks(_, _)
BroadcastBlocks(o, blocks) ==
    IF blocks = << >> THEN o
    ELSE BroadcastBlocks(BroadcastBlock(o, Head(blocks)), Tail(blocks))

\* for-await body, msg.type === 'assistant'.
AgentAssistant(blocks, sid) ==
    /\ Budget
    /\ Settled
    /\ sid \in loops
    /\ turnCount < MaxTurns
    /\ out' = BroadcastBlocks(Quiet, blocks)
    /\ turnCount' = turnCount + 1
    /\ act' = [name |-> "assistant", blocks |-> blocks]
    /\ UNCHANGED << mgrVars, messageQueue, resolveNext, closed, loops, delivered, timers,
                    db, nextUuid, connVars, routineVars, permGhost >>
    /\ UNCHANGED << tokenVars, now >>
    /\ Observe

\* for-await body, msg.type === 'tool_progress': ignored.
AgentToolProgress(sid) ==
    /\ Budget
    /\ Settled
    /\ sid \in loops
    /\ out' = Quiet
    /\ act' = [name |-> "tool_progress"]
    /\ UNCHANGED << mgrVars, loopVars, timers, db, nextUuid, connVars, routineVars,
                    permGhost >>
    /\ UNCHANGED << tokenVars, now >>
    /\ Observe

\* for-await body, msg.type === 'result'.
AgentResult(cost, sid) ==
    /\ Budget
    /\ Settled
    /\ sid \in loops
    /\ totalCostUsd' = cost
    /\ out' = broadcast(Quiet, CostMsg(cost))
    /\ db' = [db EXCEPT ![sid].turnCount = turnCount]
    /\ act' = [name |-> "result", cost |-> cost]
    /\ UNCHANGED << state, clients, pendingPermissions, abortController,
                    activeDbSessionId, enqueueUserMessage, loopVars, timers, nextUuid,
                    connVars, routineVars, permGhost >>
    /\ UNCHANGED << tokenVars, now >>
    /\ Observe

ArmTimer_Never(t, id) == t

ArmTimer(t, id) == [t EXCEPT ![id] = 0]

\* canUseTool -> requestPermission(toolName, input, toolUseId, description).
AgentCanUseTool(id, sid) ==
    /\ Budget
    /\ Settled
    /\ sid \in loops
    \* The SDK gives every tool use of a session its own id; the ids are
    \* interchangeable, so the next request takes the lowest unused one.
    /\ id \in ToolUseIds \ usedIds
    /\ \A j \in ToolUseIds \ usedIds : id <= j
    /\ timers' = ArmTimer(timers, id)
    /\ pendingPermissions' = pendingPermissions \cup {id}
    /\ state' = "waiting_permission"
    /\ out' = broadcast(setState(Quiet, "waiting_permission"), PermissionRequestMsg(id))
    /\ usedIds' = usedIds \cup {id}
    /\ permResult' = [permResult EXCEPT ![id] = "waiting"]
    /\ act' = [name |-> "canUseTool", id |-> id]
    /\ UNCHANGED << clients, abortController, activeDbSessionId, totalCostUsd,
                    enqueueUserMessage, resolveCalls, loopVars, db, nextUuid, connVars,
                    routineVars >>
    /\ UNCHANGED << tokenVars, now >>
    /\ Observe

\* userStream iterator: next().
AgentReadNext(sid) ==
    /\ Budget
    /\ Settled
    /\ sid \in loops
    /\ ~resolveNext
    /\ IF messageQueue # << >>
       THEN /\ delivered' = Append(delivered, Head(messageQueue))
            /\ messageQueue' = Tail(messageQueue)
            /\ UNCHANGED resolveNext
       ELSE IF closed
       THEN UNCHANGED << delivered, messageQueue, resolveNext >>
       ELSE /\ resolveNext' = TRUE
            /\ UNCHANGED << delivered, messageQueue >>
    /\ out' = Quiet
    /\ act' = [name |-> "next", got |-> IF messageQueue # << >> THEN "turn"
                                        ELSE IF closed THEN "done" ELSE "wait"]
    /\ UNCHANGED << mgrVars, closed, turnCount, loops, timers, db, nextUuid, connVars,
                    routineVars, permGhost >>
    /\ UNCHANGED << tokenVars, now >>
    /\ Observe

\* userStream iterator: return().
AgentReturn(sid) ==
    /\ Budget
    /\ Settled
    /\ sid \in loops
    /\ ~closed
    /\ closed' = TRUE
    /\ out' = Quiet
    /\ act' = [name |-> "return"]
    /\ UNCHANGED << mgrVars, messageQueue, resolveNext, turnCount, loops, delivered, timers,
                    db, nextUuid, connVars, routineVars, permGhost >>
    /\ UNCHANGED << tokenVars, now >>
    /\ Observe

RECURSIVE ResolveAll(_, _, _)
ResolveAll(r, P, v) ==
    IF P = {} THEN r
    ELSE LET id == CHOOSE x \in P : TRUE
         IN ResolveAll(Resolve(r, id, v), P \ {id}, v)

ClearTimers_None(t, P) == t

ClearTimers(t, P) == [id \in ToolUseIds |-> IF id \in P THEN NoTimer ELSE t[id]]

FinalState_AlwaysDone(status) == "done"

FinalState(status) == IF status = "error" THEN "error" ELSE "done"

EndRow_KeepStatus(row, status) == [row EXCEPT !.ended = TRUE]

\* db.update(sessions).set({ endedAt: new Date(), status })
EndRow(row, status) == [row EXCEPT !.ended = TRUE, !.status = status]

\* _finaliseSession(sessionId, status); o holds what the caller has already sent.
finaliseSession(o, sessionId, status) ==
    /\ enqueueUserMessage' = NoSession
    /\ abortController' = "null"
    /\ timers' = ClearTimers(timers, pendingPermissions)
    /\ permResult' = ResolveAll(permResult, pendingPermissions, DenyEnded)
    /\ resolveCalls' = [id \in ToolUseIds |->
                          IF id \in pendingPermissions THEN resolveCalls[id] + 1
                          ELSE resolveCalls[id]]
    /\ pendingPermissions' = {}
    /\ db' = [db EXCEPT ![sessionId] = EndRow(@, status)]
    /\ state' = FinalState(status)
    /\ out' = setState(o, FinalState(status))

\* The for-await loop of _runSdkLoop stops.  It ends normally and
\* _finaliseSession(sessionId, 'stopped') follows, or it raises and the .catch
\* handler of startSession broadcasts the error and finalises with 'error'.
LoopStops(sid, raised) ==
    /\ sid \in loops
    /\ finaliseSession(IF raised THEN broadcast(Quiet, ErrorMsg("sdk")) ELSE Quiet, sid,
                       IF raised THEN "error" ELSE "stopped")
    /\ loops' = loops \ {sid}
    /\ act' = [name |-> IF raised THEN "loop_raise" ELSE "loop_end",
               aborted |-> abortController = "aborted"]
    /\ UNCHANGED << clients, activeDbSessionId, totalCostUsd, messageQueue, resolveNext,
                    closed, turnCount, delivered, usedIds, nextUuid, connVars,
                    routineVars >>
    /\ UNCHANGED << tokenVars, now >>
    /\ Observe

\* The for-await loop ends normally.
AgentEnd(sid) == Budget /\ LoopStops(sid, FALSE)

\* _runSdkLoop rejects.
AgentRaise(sid) == Budget /\ LoopStops(sid, TRUE)

\* While sessions start the clock reads the same: how far ahead the stored
\* expiry lies is what InitialConfigs varies.
Next ==
    \/ \E c \in Clients, rs \in {OPEN, CLOSED}, raises \in BOOLEAN : Connect(c, rs, raises)
    \/ \E c \in Clients : SocketClose(c)
    \/ \E c \in Clients : CloseEvent(c)
    \/ \E c \in Clients, id \in ToolUseIds, allow \in BOOLEAN :
          RecvPermissionResponse(c, id, allow)
    \/ \E id \in ToolUseIds : Timeout(id)
    \/ Tick
    \/ Interrupt
    \/ \E c \in Clients, m \in Contents : RecvMessageForward(c, m)
    \/ \E c \in Clients, m \in Contents, sandboxOk \in BOOLEAN :
          RecvMessageStart(c, m, now, sandboxOk)
    \/ \E r \in refreshing, ok \in BOOLEAN, expires_in \in ExpiresIns, sandboxOk \in BOOLEAN :
          RefreshDone(r, ok, expires_in, now, sandboxOk)
    \/ StartContinue
    \/ \E sid \in SessionIds, blocks \in AssistantContents : AgentAssistant(blocks, sid)
    \/ \E sid \in SessionIds : AgentToolProgress(sid)
    \/ \E sid \in SessionIds, cost \in Costs : AgentResult(cost, sid)
    \/ \E sid \in SessionIds, id \in ToolUseIds : AgentCanUseTool(id, sid)
    \/ \E sid \in SessionIds : AgentReadNext(sid)
    \/ \E sid \in SessionIds : AgentReturn(sid)
    \/ \E sid \in SessionIds : AgentEnd(sid)
    \/ \E sid \in SessionIds : AgentRaise(sid)

Spec == Init /\ [][Next]_vars

\* ------------------------------------------------------- the way in: admission
\* A process under any value of APP_SECRET, and the requests that try to get
\* in: upgrades, page requests, ticket checks.
AuthInit ==
    /\ Init0
    /\ config = EmptyConfig
    /\ secret \in Secrets
    /\ recording = FALSE

AuthBudget == steps < MaxRequests

AuthNext ==
    \* The tokens of a request are read only after the path check, so requests
    \* to other paths are told apart by their URL alone.
    \/ \E url \in {<< "/api", "/ws" >>, << "/api", "/ws", "-ticket" >>, << "/api", "/health" >>},
          nowMs \in AuthClock :
          \E cookie \in (IF startsWith(url, WS_PATH) THEN {NoToken} \cup SessionValues
                         ELSE {NoToken}),
             query \in (IF startsWith(url, WS_PATH) THEN Presented(nowMs) ELSE {NoToken}) :
             AuthBudget /\ Upgrade(url, cookie, query, nowMs, OPEN, FALSE)
    \/ \E cookie \in Presented(now) : AuthBudget /\ HttpRequest(cookie)
    \/ \E ticket \in TicketArguments, nowMs \in AuthClock :
          AuthBudget /\ TicketCheck(ticket, nowMs)

AuthSpec == AuthInit /\ [][AuthNext]_vars

\* ------------------------------------------------- setup and settings routes
\* The routes that write the token rows of the config table outside a session
\* start: the browser OAuth flow (start, exchange), the pasted setup token and
\* the settings page.  Each answers with a status; `stored` is the record the
\* route handed to storeTokens (NoTokens when it did not call it).

SETUP_TOKEN_WINDOW_MS == 7 * 24 * 60 * 60 * 1000

\* String.prototype.trim on a text given as a sequence of characters
trim(s) ==
    LET inked == {i \in 1..Len(s) : s[i] # " "}
    IN IF inked = {} THEN << >>
       ELSE SubSeq(s, CHOOSE i \in inked : \A j \in inked : i <= j,
                      CHOOSE i \in inked : \A j \in inked : i >= j)

\* What exchangeCode resolves to on a 2xx answer read at nowMs; refresh_token 0:
\* the answer carries none.
exchangeCode(refresh_token, expires_in, nowMs) ==
    [accessToken |-> tokensIssued + 1,
     refreshToken |-> refresh_token,
     expiresAt |-> nowMs + expiresInOf(expires_in) * 1000,
     refreshedAt |-> nowMs]

\* The record the pasted-token routes build.
pastedTokens(nowMs) ==
    [accessToken |-> tokensIssued + 1,
     refreshToken |-> 0,
     expiresAt |-> nowMs + SETUP_TOKEN_WINDOW_MS,
     refreshedAt |-> nowMs]

SetupFrame ==
    /\ Budget
    /\ out' = Quiet
    /\ UNCHANGED << mgrVars, loopVars, timers, db, nextUuid, connVars, routineVars,
                    permGhost, agentToken >>
    /\ Observe

\* GET /api/setup/claude/start
ClaudeStart ==
    /\ config' = [config EXCEPT !.oauth_pending_state = Row(steps + 1),
                                !.oauth_pending_verifier = Row(steps + 1)]
    /\ act' = [name |-> "claude_start", status |-> 200, stored |-> NoTokens]
    /\ UNCHANGED << tokensIssued, now >>
    /\ SetupFrame

ExchangeAfterSuccess_KeepPending(cfg) == cfg

\* setConfig('setup_complete', 'true'); deleteConfig of the two pending rows
ExchangeAfterSuccess(cfg) ==
    [cfg EXCEPT !.setup_complete = Row("true"),
                !.oauth_pending_state = Absent,
                !.oauth_pending_verifier = Absent]

\* POST /api/setup/claude/exchange; upstreamOk: the token endpoint answered 2xx.
ClaudeExchange(code, upstreamOk, refresh_token, expires_in, nowMs) ==
    /\ now' = nowMs
    /\ IF trim(code) = << >>
       THEN /\ act' = [name |-> "claude_exchange", status |-> 400, stored |-> NoTokens,
                       code |-> code, upstreamOk |-> upstreamOk]
            /\ UNCHANGED << config, tokensIssued >>
       ELSE IF config.oauth_pending_verifier = Absent
       THEN /\ act' = [name |-> "claude_exchange", status |-> 400, stored |-> NoTokens,
                       code |-> code, upstreamOk |-> upstreamOk]
            /\ UNCHANGED << config, tokensIssued >>
       ELSE IF ~upstreamOk
       THEN /\ act' = [name |-> "claude_exchange", status |-> 400, stored |-> NoTokens,
                       code |-> code, upstreamOk |-> upstreamOk]
            /\ UNCHANGED << config, tokensIssued >>
       ELSE LET tokens == exchangeCode(refresh_token, expires_in, nowMs)
            IN /\ config' = ExchangeAfterSuccess(storeTokens(config, tokens))
               /\ tokensIssued' = tokensIssued + 1
               /\ act' = [name |-> "claude_exchange", status |-> 200, stored |-> tokens,
                          code |-> code, upstreamOk |-> upstreamOk]
    /\ SetupFrame

\* POST /api/setup/claude/token, written with storeTokens
SetupToken(formatOk, nowMs) ==
    /\ now' = nowMs
    /\ IF ~formatOk
       THEN /\ act' = [name |-> "setup_token", status |-> 400, stored |-> NoTokens]
            /\ UNCHANGED << config, tokensIssued >>
       ELSE LET tokens == pastedTokens(nowMs)
            IN /\ config' = [storeTokens(config, tokens)
                                EXCEPT !.setup_complete = Row("true")]
               /\ tokensIssued' = tokensIssued + 1
               /\ act' = [name |-> "setup_token", status |-> 200, stored |-> tokens]
    /\ SetupFrame

\* POST /api/setup/claude/token, the variant that writes the rows itself
SetupTokenDirect(formatOk, nowMs) ==
    /\ now' = nowMs
    /\ IF config.setup_complete = Row("true")
       THEN /\ act' = [name |-> "setup_token_direct", status |-> 403, stored |-> NoTokens]
            /\ UNCHANGED << config, tokensIssued >>
       ELSE IF ~formatOk
       THEN /\ act' = [name |-> "setup_token_direct", status |-> 400, stored |-> NoTokens]
            /\ UNCHANGED << config, tokensIssued >>
       ELSE /\ config' = [config EXCEPT
                             !.claude_oauth_token = Row(encrypt(tokensIssued + 1)),
                             !.claude_token_expires_at = nowMs + SETUP_TOKEN_WINDOW_MS,
                             !.setup_complete = Row("true")]
            /\ tokensIssued' = tokensIssued + 1
            /\ act' = [name |-> "setup_token_direct", status |-> 200, stored |-> NoTokens]
    /\ SetupFrame

\* POST of the settings page's token update
SettingsToken(formatOk, nowMs) ==
    /\ now' = nowMs
    /\ IF ~formatOk
       THEN /\ act' = [name |-> "settings_token", status |-> 400, stored |-> NoTokens]
            /\ UNCHANGED << config, tokensIssued >>
       ELSE LET tokens == pastedTokens(nowMs)
            IN /\ config' = storeTokens(config, tokens)
               /\ tokensIssued' = tokensIssued + 1
               /\ act' = [name |-> "settings_token", status |-> 200, stored |-> tokens]
    /\ SetupFrame

SetupInit ==
    /\ Init0
    /\ config = EmptyConfig
    /\ secret = [id |-> 1, len |-> 32]
    /\ recording = FALSE

\* Date.now() of a request: the clock has stood still or moved on by an hour.
SetupClock ==
    {now} \cup (IF now < MaxHours * 3600 * 1000 THEN {now + 3600 * 1000} ELSE {})

SetupNext ==
    \/ ClaudeStart
    \/ \E code \in {<< >>, <<" ">>, <<"c">>, <<"c", "#", "s">>, <<" ", "c", " ">>},
          upstreamOk \in BOOLEAN, refresh_token \in {0, 1},
          expires_in \in ExpiresIns, nowMs \in SetupClock :
          ClaudeExchange(code, upstreamOk, refresh_token, expires_in, nowMs)
    \/ \E formatOk \in BOOLEAN, nowMs \in SetupClock : SetupToken(formatOk, nowMs)
    \/ \E formatOk \in BOOLEAN, nowMs \in SetupClock : SetupTokenDirect(formatOk, nowMs)
    \/ \E formatOk \in BOOLEAN, nowMs \in SetupClock : SettingsToken(formatOk, nowMs)

SetupSpec == SetupInit /\ [][SetupNext]_vars

\* ------------------------------------------------------- route authorisation
\* hooks.server.ts handle().  A path or query is its text cut into tokens: the
\* characters "/", "?", "=" and the runs of text between them ("-ticket" is the
\* tail of "ws-ticket" after "ws").

PUBLIC_PATHS ==
    {<< "/", "login" >>, << "/", "api", "/", "health" >>,
     << "/", "api", "/", "auth", "/", "google" >>,
     << "/", "api", "/", "auth", "/", "callback" >>, << "/", "api", "/", "ws" >>}
SETUP_PATHS ==
    {<< "/", "setup" >>, << "/", "api", "/", "setup" >>,
     << "/", "api", "/", "auth", "/", "signout" >>}

\* list.some((p) => path === p || path.startsWith(p + '/'))
Matches(path, list) ==
    \E p \in list : path = p \/ startsWith(path, p \o << "/" >>)

\* encodeURIComponent, token by token
encodeURIComponent(text) ==
    [i \in 1..Len(text) |->
        CASE text[i] = "/" -> "%2F"
          [] text[i] = "?" -> "%3F"
          [] text[i] = "=" -> "%3D"
          [] OTHER -> text[i]]

\* The answer: served (resolve(event)), a redirect, or 500 when getSecret()
\* threw inside getSession and the request ended in handleError.
handle(path, search, cookie) ==
    /\ steps < MaxRequests
    /\ Budget
    /\ act' = [name |-> "handle", path |-> path, search |-> search, cookie |-> cookie,
               response |->
                  IF Matches(path, PUBLIC_PATHS)
                  THEN [served |-> TRUE, status |-> 0, location |-> << >>]
                  ELSE IF getSession(cookie) = "throws"
                  THEN [served |-> FALSE, status |-> 500, location |-> << >>]
                  ELSE IF getSession(cookie) = "false"
                  THEN [served |-> FALSE, status |-> 302,
                        location |-> << "/", "login", "?", "return_to", "=" >>
                                        \o encodeURIComponent(path \o search)]
                  ELSE IF config.setup_complete # Row("true") /\ ~Matches(path, SETUP_PATHS)
                  THEN [served |-> FALSE, status |-> 302, location |-> << "/", "setup" >>]
                  ELSE [served |-> TRUE, status |-> 0, location |-> << >>]]
    /\ out' = Quiet
    /\ UNCHANGED << mgrVars, loopVars, timers, db, nextUuid, connVars, routineVars,
                    permGhost, tokenVars, now >>
    /\ Observe

RouteInit ==
    /\ Init0
    /\ config \in {EmptyConfig, SetUpWith(1, 0, SETUP_TOKEN_WINDOW_MS)}
    /\ secret \in Secrets
    /\ recording = FALSE

RouteNext ==
    \E path \in {<< "/" >>, << "/", "login" >>, << "/", "api", "/", "ws" >>,
                 << "/", "api", "/", "ws", "/", "x" >>, << "/", "api", "/", "ws", "-ticket" >>,
                 << "/", "api", "/", "health" >>, << "/", "api", "/", "session" >>,
                 << "/", "api", "/", "debug" >>, << "/", "setup" >>,
                 << "/", "api", "/", "setup", "/", "claude" >>,
                 << "/", "api", "/", "auth", "/", "signout" >>},
       search \in {<< >>, << "?", "a", "=", "1" >>},
       cookie \in Presented(now) :
       handle(path, search, cookie)

RouteSpec == RouteInit /\ [][RouteNext]_vars

\* ------------------------------------------------------- the debug ring buffer
\* debug-logger.ts.  An entry is told apart by its msg: the number of the push
\* since the buffer was last empty.

\* Array.prototype.slice(start): a negative start counts from the end.
slice(arr, start) ==
    LET from == IF start < 0
                THEN (IF Len(arr) + start > 0 THEN Len(arr) + start ELSE 0)
                ELSE (IF start < Len(arr) THEN start ELSE Len(arr))
    IN SubSeq(arr, from + 1, Len(arr))

RingFrame ==
    /\ out' = Quiet
    /\ UNCHANGED << mgrVars, loopVars, timers, db, nextUuid, connVars, routineVars,
                    permGhost, tokenVars, now, secret, recording, received, trace, lastState,
                    steps >>

\* debug(tag, msg)
debug(msg) ==
    /\ msg <= MaxPushes
    /\ LET pushed == Append(ring, [tag |-> "t", msg |-> msg])
       IN ring' = IF Len(pushed) > RING_SIZE THEN Tail(pushed) ELSE pushed
    /\ act' = [name |-> "debug", limit |-> 0, result |-> << >>]
    /\ RingFrame

\* getDebugLog(limit)
getDebugLog(limit) ==
    /\ act' = [name |-> "getDebugLog", limit |-> limit, result |-> slice(ring, 0 - limit)]
    /\ UNCHANGED ring
    /\ RingFrame

\* clearDebugLog()
clearDebugLog ==
    /\ ring' = << >>
    /\ act' = [name |-> "clearDebugLog", limit |-> 0, result |-> << >>]
    /\ RingFrame

RingInit ==
    /\ Init0
    /\ config = EmptyConfig
    /\ secret = [id |-> 1, len |-> 32]
    /\ recording = FALSE

RingNext ==
    \/ debug(IF ring = << >> THEN 1 ELSE ring[Len(ring)].msg + 1)
    \/ \E limit \in {0, 1, 3, RING_SIZE, RING_SIZE + 1} : getDebugLog(limit)
    \/ clearDebugLog

RingSpec == RingInit /\ [][RingNext]_vars

\* ------------------------------------------------- a recorded single-subscriber run
\* One subscriber connects to a fresh manager and sends its message while the
\* Agent works; the stored token is not about to expire, the clock stands
\* still, the sandbox is up and the subscriber answers only the permission
\* requests it was sent; every step and every event sent to the subscriber is
\* recorded.
ScenarioInit ==
    /\ Init0
    /\ config = SetUpWith(1, 1, REFRESH_THRESHOLD_S * 1000)
    /\ secret = [id |-> 1, len |-> 32]
    /\ recording = TRUE

ScenarioNext ==
    \/ clients = {} /\ Connect(1, OPEN, FALSE)
    \/ RecvMessageStart(1, 1, now, TRUE)
    \/ StartContinue
    \/ \E sid \in SessionIds, blocks \in AssistantContents : AgentAssistant(blocks, sid)
    \/ \E sid \in SessionIds, id \in ToolUseIds : AgentCanUseTool(id, sid)
    \/ \E id \in pendingPermissions, allow \in BOOLEAN : RecvPermissionResponse(1, id, allow)
    \/ \E sid \in SessionIds, cost \in Costs : AgentResult(cost, sid)
    \/ \E sid \in SessionIds : AgentEnd(sid)

ScenarioSpec == ScenarioInit /\ [][ScenarioNext]_vars

\* ---------------------------------------------------------------- one session
\* The life of a session seen from its input stream and its abort handle:
\* subscribers whose send works write turns with distinguishable contents, the
\* Agent reads them, asks for permissions, and is interrupted.

AbortSurfaces_Never ==
    /\ abortController = "aborted"
    /\ loops = {}
    /\ UNCHANGED vars

\* AbortController.abort() reaches query(): the SDK stops the Agent and the
\* for-await loop of _runSdkLoop ends or raises.  This is the SDK's next move
\* once the signal is aborted, whatever else the server is doing.
AbortSurfaces ==
    /\ abortController = "aborted"
    /\ UNCHANGED steps
    /\ \E sid \in SessionIds, raised \in BOOLEAN : LoopStops(sid, raised)

LoopNext ==
    \/ \E c \in Clients : Connect(c, OPEN, FALSE)
    \/ \E c \in Clients, m \in 1..(MaxContent + 1) : RecvMessageStart(c, m, now, TRUE)
    \/ \E r \in refreshing, ok \in BOOLEAN : RefreshDone(r, ok, NoExpiresIn, now, TRUE)
    \/ StartContinue
    \/ \E c \in Clients, m \in 1..(MaxContent + 1) : RecvMessageForward(c, m)
    \/ \E c \in Clients, id \in ToolUseIds, allow \in BOOLEAN :
          RecvPermissionResponse(c, id, allow)
    \/ Interrupt
    \/ \E sid \in SessionIds, id \in ToolUseIds : AgentCanUseTool(id, sid)
    \/ \E sid \in SessionIds : AgentReadNext(sid)
    \/ \E sid \in SessionIds : AgentReturn(sid)
    \/ \E sid \in SessionIds : AgentEnd(sid)
    \/ \E sid \in SessionIds : AgentRaise(sid)
    \/ AbortSurfaces

LoopSpec == Init /\ [][LoopNext]_vars /\ WF_vars(AbortSurfaces)

\* ------------------------------------------------------------------ claims
PermSettled(id) == permResult[id] \notin {"none", "waiting"}
Reaches(c) == c \in clients /\ readyState[c] = OPEN /\ ~sendRaises[c]
Started == act.name = "startSession" /\ act.result = "started"
LoopEnded == act.name \in {"loop_end", "loop_raise"}

\* C1: startSession succeeds exactly in idle, done and error, where it creates
\* the running session record and the only live Agent loop; in running and
\* waiting_permission it fails with InvalidState and leaves the state, the
\* cost, the abort and enqueue handles and the session records as they were.
\* At no time is more than one Agent loop live.
C1_SingleActiveSession ==
    /\ [](Cardinality(loops) <= 1)
    /\ [][act'.name = "startSession" =>
            IF state \in {"idle", "done", "error"}
            THEN /\ act'.result = "started"
                 /\ state' = "running"
                 /\ activeDbSessionId' \notin {NoSession, activeDbSessionId}
                 /\ db[activeDbSessionId'].status = "absent"
                 /\ db'[activeDbSessionId'].status = "running"
                 /\ loops = {}
                 /\ loops' = {activeDbSessionId'}
            ELSE /\ act'.result = "InvalidState"
                 /\ UNCHANGED << state, totalCostUsd, abortController, enqueueUserMessage,
                                 activeDbSessionId, db, nextUuid, loops,
                                 pendingPermissions >>]_vars

\* A second startSession call, issued while the first one's session is live,
\* has been refused.
C1_Witness ==
    /\ act.name = "startSession"
    /\ act.result = "InvalidState"
    /\ Cardinality(loops) = 1

\* C2: resolve is called at most once on a permission's promise; the value is
\* that of the first event (allow / user deny for a response, timeout deny for
\* the timer, session-ended deny for finalisation); once settled the value
\* stays, the entry and its timer are gone, and a later response with the same
\* id changes neither the state nor the pending map and sends nothing.
C2_ResolvedAtMostOnce ==
    /\ [](\A id \in ToolUseIds :
            /\ resolveCalls[id] <= 1
            /\ PermSettled(id) => (id \notin pendingPermissions /\ timers[id] = NoTimer))
    /\ [][\A id \in ToolUseIds :
            /\ (permResult[id] = "waiting" /\ permResult'[id] # "waiting") =>
                  permResult'[id] =
                     CASE act'.name = "permission_response" /\ act'.id = id ->
                             IF act'.allow THEN "allow" ELSE "deny: User denied."
                       [] act'.name = "timeout" /\ act'.id = id ->
                             "deny: Permission request timed out."
                       [] act'.name \in {"loop_end", "loop_raise"} ->
                             "deny: Session ended."
                       [] OTHER -> "no event"
            /\ (PermSettled(id) /\ ~Started') =>
                  (permResult'[id] = permResult[id] /\ resolveCalls'[id] = resolveCalls[id])
            /\ (PermSettled(id) /\ act'.name = "permission_response" /\ act'.id = id) =>
                  (UNCHANGED << state, pendingPermissions, timers >> /\ out' = Quiet)
         ]_vars

\* A response arrived for a permission that an earlier event had settled.
C2_Witness ==
    /\ act.name = "permission_response"
    /\ PermSettled(act.id)
    /\ out = Quiet

C4_UnknownResponseNoOp ==
    [][\A id \in ToolUseIds :
          (act'.name = "permission_response" /\ act'.id = id /\ id \notin pendingPermissions)
          => /\ UNCHANGED << state, pendingPermissions, clients, totalCostUsd, timers,
                             permResult, resolveCalls, abortController,
                             enqueueUserMessage, loops, db >>
             /\ out' = Quiet]_vars

\* A response with an id the Agent never asked about arrived while another
\* permission was pending.
C4_Witness ==
    /\ act.name = "permission_response"
    /\ act.id \notin usedIds
    /\ pendingPermissions # {}
    /\ state = "waiting_permission"

\* C5: registration sends the new connection session_state{current state},
\* then cost{totalUsd} iff the cost is non-zero, and sends nothing to anyone
\* else; no other step sends anything to a connection that has not been
\* through such a registration.
C5_FirstEventIsState ==
    [][\A c \in Clients :
          /\ (act'.name = "Connect" /\ act'.ws = c) =>
                /\ ~sendRaises'[c] =>
                      out'[c] = IF totalCostUsd # 0
                                THEN << StateMsg(state), CostMsg(totalCostUsd) >>
                                ELSE << StateMsg(state) >>
                /\ \A d \in Clients \ {c} : out'[d] = << >>
          /\ (~(act'.name = "Connect" /\ act'.ws = c) /\ out'[c] # << >>) =>
                (handlers[c] \/ HeldByRoutine(c))
      ]_vars

\* A connection registered while a cost had accumulated got state, then cost.
C5_Witness ==
    /\ act.name = "Connect"
    /\ totalCostUsd > 0
    /\ out[act.ws] = << StateMsg(state), CostMsg(totalCostUsd) >>

\* C6: registration never fails, so every registered connection has its
\* message and close callbacks installed.
C6_AddSubscriberNeverFails == \A c \in clients : handlers[c]

\* C7: a broadcast hands its events, once each and in order, to exactly the
\* registered connections that are open (and whose send does not throw), and
\* to nobody else, whatever the other connections do.
C7_BroadcastDelivery ==
    [][\A c \in Clients :
          /\ act'.name = "result" =>
                out'[c] = IF Reaches(c) THEN << CostMsg(act'.cost) >> ELSE << >>
          /\ act'.name = "canUseTool" =>
                out'[c] = IF Reaches(c)
                          THEN << StateMsg("waiting_permission"),
                                  PermissionRequestMsg(act'.id) >>
                          ELSE << >>
          /\ act'.name = "loop_end" =>
                out'[c] = IF Reaches(c) THEN << StateMsg("done") >> ELSE << >>
          /\ act'.name = "loop_raise" =>
                out'[c] = IF Reaches(c) THEN << ErrorMsg("sdk"), StateMsg("error") >>
                          ELSE << >>
      ]_vars

\* A cost event reached an open connection although the send of a connection
\* visited before it throws, and a closed connection got nothing.
C7_Witness ==
    /\ act.name = "result"
    /\ \E c, d \in clients :
          /\ c < d
          /\ readyState[c] = OPEN /\ sendRaises[c]
          /\ out[d] = << CostMsg(act.cost) >>

\* C8: the close of a connection removes exactly that connection from the
\* subscriber set and changes nothing else.
C8_CloseRemovesOnlyThat ==
    [][act'.name = "CloseEvent" =>
          /\ clients' = clients \ {act'.ws}
          /\ act'.ws \notin clients'
          /\ UNCHANGED << state, pendingPermissions, totalCostUsd, messageQueue,
                          resolveNext, delivered, loops, timers, abortController,
                          enqueueUserMessage >>]_vars

\* C9: sendMessage in running or waiting_permission appends exactly one user
\* turn of the current session to the Agent's input stream and changes nothing
\* else; in idle, done or error it throws, enqueues nothing, changes no state
\* and broadcasts nothing.
C9_SendMessage ==
    [][act'.name \in {"message", "first_message"} =>
          IF state \in {"running", "waiting_permission"}
          THEN /\ act'.error = ""
               /\ delivered' \o messageQueue' =
                     Append(delivered \o messageQueue,
                            [type |-> "user", content |-> act'.content,
                             session_id |-> activeDbSessionId])
               /\ out' = Quiet
               /\ UNCHANGED << state, pendingPermissions, clients, totalCostUsd, timers,
                               loops, closed >>
          ELSE /\ act'.error # ""
               /\ UNCHANGED << state, messageQueue, delivered, resolveNext,
                               pendingPermissions, clients, totalCostUsd, timers, loops >>
               /\ \A d \in Clients \ {act'.ws} : out'[d] = << >>
      ]_vars

\* A message sent while a permission was pending has been queued.
C9_Witness ==
    /\ act.name = "message"
    /\ act.error = ""
    /\ state = "waiting_permission"
    /\ Len(delivered) + Len(messageQueue) >= 1

\* C10: the step that ends the Agent loop resolves every pending permission
\* with the session-ended deny, cancels its timer, empties the pending map,
\* clears the abort and enqueue handles and leaves the state done or error;
\* in idle, done and error nothing is pending and no timer is armed.
C10_Finalisation ==
    /\ [](state \in {"idle", "done", "error"} =>
            (pendingPermissions = {} /\ \A id \in ToolUseIds : timers[id] = NoTimer))
    /\ [][act'.name \in {"loop_end", "loop_raise"} =>
            /\ \A id \in pendingPermissions :
                  permResult'[id] = "deny: Session ended." /\ timers'[id] = NoTimer
            /\ pendingPermissions' = {}
            /\ abortController' = "null"
            /\ enqueueUserMessage' = NoSession
            /\ state' = IF act'.name = "loop_end" THEN "done" ELSE "error"
            /\ loops' = {}
         ]_vars

\* The loop ended after an interrupt while a permission was pending.
C10_Witness ==
    /\ LoopEnded
    /\ act.aborted
    /\ \E id \in ToolUseIds : permResult[id] = DenyEnded
    /\ state \in {"done", "error"}

RunningRows == {s \in SessionIds : db[s].status = "running"}
Active(s) == s \in {"running", "waiting_permission"}

C12_TerminalState ==
    /\ [](loops = {} => ~Active(state))
    /\ [][act'.name = "loop_end" =>
             /\ state' = "done"
             /\ db'[activeDbSessionId].status = "stopped"
             /\ db'[activeDbSessionId].ended
             /\ \A c \in Clients : \A i \in 1..Len(out'[c]) : out'[c][i].type # "error"
          ]_vars
    /\ [][act'.name = "loop_raise" =>
             /\ state' = "error"
             /\ db'[activeDbSessionId].status = "error"
             /\ db'[activeDbSessionId].ended
             /\ \A c \in Clients :
                   Reaches(c) => out'[c] = << [type |-> "error", message |-> "sdk"],
                                              [type |-> "session_state", state |-> "error"] >>
          ]_vars

\* The stream raised while a subscriber was listening.
C12_Witness ==
    /\ act.name = "loop_raise"
    /\ state = "error"
    /\ db[activeDbSessionId].status = "error"
    /\ \E c \in Clients : Len(out[c]) = 2 /\ out[c][1].type = "error"

\* C14: interrupt sends nothing and changes nothing but the abort handle; on a
\* handle that is absent or already aborted it changes nothing at all, so a
\* repeated call is the same as one call; in idle, done and error there is no
\* handle, and every session start installs a fresh, un-aborted handle.
C14_InterruptIdempotent ==
    /\ [](state \in {"idle", "done", "error"} => abortController = "null")
    /\ [][act'.name = "interrupt" =>
             /\ out' = Quiet
             /\ UNCHANGED << state, clients, pendingPermissions, activeDbSessionId,
                             totalCostUsd, enqueueUserMessage, loopVars, timers, db,
                             permGhost >>
             /\ abortController' = IF abortController = "live" THEN "aborted"
                                   ELSE abortController
             /\ act.name = "interrupt" => abortController' = abortController
          ]_vars
    /\ [][Started' => abortController' = "live"]_vars

\* interrupt was called again on a session that was already aborted.
C14_Witness ==
    /\ act.name = "interrupt"
    /\ act.handle = "aborted"
    /\ abortController = "aborted"
    /\ Active(state)

ScenarioStep(i, a) ==
    CASE i = 1 -> a.name = "Connect" /\ a.ws = 1
      [] i = 2 -> a.name = "startSession" /\ a.ws = 1 /\ a.result = "started"
      [] i = 3 -> a.name = "first_message" /\ a.ws = 1 /\ a.error = ""
      [] i = 4 -> a.name = "assistant" /\ a.blocks = << [type |-> "tool_use", id |-> 1] >>
      [] i = 5 -> a.name = "canUseTool" /\ a.id = 1
      [] i = 6 -> a.name = "permission_response" /\ a.id = 1 /\ a.allow
      [] i = 7 -> a.name = "result" /\ a.cost = 1
      [] i = 8 -> a.name = "loop_end"
ScenarioRan(n) == Len(trace) = n /\ \A i \in 1..n : ScenarioStep(i, trace[i])

\* C13 as stated: up to the permission request A has received
\* session_state{idle}, session_state{running}, tool_start{t1},
\* permission_request{t1}, session_state{waiting_permission}, and by the end of
\* the scenario also session_state{running}, cost{0.01}, session_state{done}.
C13_PermissionAllowTrace ==
    /\ ScenarioRan(5) =>
          received = << [type |-> "session_state", state |-> "idle"],
                        [type |-> "session_state", state |-> "running"],
                        [type |-> "tool_start", toolUseId |-> 1],
                        [type |-> "permission_request", id |-> 1],
                        [type |-> "session_state", state |-> "waiting_permission"] >>
    /\ ScenarioRan(8) =>
          received = << [type |-> "session_state", state |-> "idle"],
                        [type |-> "session_state", state |-> "running"],
                        [type |-> "tool_start", toolUseId |-> 1],
                        [type |-> "permission_request", id |-> 1],
                        [type |-> "session_state", state |-> "waiting_permission"],
                        [type |-> "session_state", state |-> "running"],
                        [type |-> "cost", totalUsd |-> 1],
                        [type |-> "session_state", state |-> "done"] >>

\* C13 amended: the same trace with session_state{waiting_permission} before
\* permission_request{t1}.
C13_PermissionAllowTrace_Amended ==
    /\ ScenarioRan(5) =>
          received = << [type |-> "session_state", state |-> "idle"],
                        [type |-> "session_state", state |-> "running"],
                        [type |-> "tool_start", toolUseId |-> 1],
                        [type |-> "session_state", state |-> "waiting_permission"],
                        [type |-> "permission_request", id |-> 1] >>
    /\ ScenarioRan(8) =>
          received = << [type |-> "session_state", state |-> "idle"],
                        [type |-> "session_state", state |-> "running"],
                        [type |-> "tool_start", toolUseId |-> 1],
                        [type |-> "session_state", state |-> "waiting_permission"],
                        [type |-> "permission_request", id |-> 1],
                        [type |-> "session_state", state |-> "running"],
                        [type |-> "cost", totalUsd |-> 1],
                        [type |-> "session_state", state |-> "done"] >>

\* The scenario has run to its end and A has received eight events.
C13_Witness ==
    /\ ScenarioRan(8)
    /\ Len(received) = 8
    /\ state = "done"

\* ------------------------------------------------------------- admission claims
\* What the server itself hands out under its current secret: the cookie value
\* of createSession, and a ticket of createWsTicket still inside its window.
AtWsPath(url) == Len(url) >= 2 /\ url[1] = "/api" /\ url[2] = "/ws"
IssuedTicket(tok) == \E t \in TicketTimes : tok = createWsTicket(secret, t, Nonce)
Genuine(tok, nowMs) ==
    /\ secret.len >= 32
    /\ \/ tok = sign(secret, SessionBody)
       \/ \E t \in TicketTimes :
             tok = createWsTicket(secret, t, Nonce) /\ nowMs - t < TICKET_TTL_MS

\* C15: a connection becomes a subscriber only through an upgrade at the WS
\* path that presented a valid signed session value or an unexpired ticket; an
\* upgrade at the WS path with no token or only invalid ones is answered 401
\* and registers nobody; an upgrade to another path is closed with no response.
C15_OnlyValidCredentials ==
    [][/\ clients' \subseteq clients \/ (act'.name = "upgrade" /\ act'.response = "101")
       /\ act'.name = "upgrade" =>
             /\ act'.response = "none" <=> ~AtWsPath(act'.url)
             /\ act'.response # "101" => clients' = clients /\ out' = Quiet
             /\ act'.response = "101" =>
                   /\ Genuine(act'.cookie, now') \/ Genuine(act'.query, now')
                   /\ clients' = clients \cup {act'.ws}
             /\ (/\ AtWsPath(act'.url)
                 /\ ~Genuine(act'.cookie, now')
                 /\ ~Genuine(act'.query, now')) => act'.response = "401"]_vars

\* C16: an upgrade at the WS path is accepted whenever the cookie or the
\* ?token= parameter holds a valid credential, whatever the other one holds.
C16_EitherPlaceSuffices ==
    [][(/\ act'.name = "upgrade"
        /\ AtWsPath(act'.url)
        /\ Genuine(act'.cookie, now') \/ Genuine(act'.query, now'))
          => act'.response = "101"]_vars

\* C17: a ticket issued at t under a secret of at least 32 characters is valid
\* at time now exactly when now - t < 30 s and it was signed with the current
\* secret; a string with no dot, with an empty timestamp, without the nonce
\* separator, or with a MAC of another length is rejected, and no call raises.
NoDotTicket == << Digit(0), Underscore >>
EmptyTimestampTicket == sign(secret, << Dot >> \o Nonce)
NoSeparatorTicket == sign(secret, toString36(0))
ShortMacTicket == toString36(0) \o << Dot >> \o Nonce \o << Dot >>
LongMacTicket == Append(createWsTicket(secret, 0, Nonce), Underscore)
Malformed ==
    {NoDotTicket, EmptyTimestampTicket, NoSeparatorTicket, ShortMacTicket, LongMacTicket}
C17_TicketValidity ==
    [][act'.name = "isValidWsTicket" =>
          /\ act'.result \in BOOLEAN
          /\ \A key \in {secret, ForeignKey}, t \in TicketTimes :
                (key.len >= 32 /\ act'.ticket = createWsTicket(key, t, Nonce)) =>
                   (act'.result <=> (now' - t < 30 * 1000 /\ key = secret))
          /\ act'.ticket \in Malformed => act'.result = FALSE]_vars
C17_Witness ==
    /\ secret.len >= 32
    /\ act.name = "isValidWsTicket"
    /\ act.ticket = createWsTicket(secret, 0, Nonce)
    /\ now = 30 * 1000
    /\ act.result = FALSE

\* C18: a ticket is single-use: after an upgrade that a ticket authenticated,
\* the next upgrade at the WS path presenting the same ticket is rejected.
C18_SingleUse ==
    [][(/\ act.name = "upgrade"
        /\ act.response = "101"
        /\ act.cookie = NoToken
        /\ IssuedTicket(act.query)
        /\ act'.name = "upgrade"
        /\ act'.response # "none"
        /\ act'.cookie = NoToken
        /\ act'.query = act.query)
          => act'.response = "401"]_vars

\* C19: with APP_SECRET absent or shorter than 32 characters no verifier accepts
\* anything: the page check never passes, isValidWsTicket is false, no upgrade
\* is accepted, and nobody is registered.
C19_ShortSecretAcceptsNothing ==
    [][secret.len < 32 =>
          /\ clients' = {}
          /\ act'.name = "upgrade" => act'.response # "101"
          /\ act'.name = "http" => act'.result # "true"
          /\ act'.name = "isValidWsTicket" => act'.result = FALSE]_vars
C19_Witness ==
    /\ secret.len = 31
    /\ act.name = "upgrade"
    /\ act.response = "401"
    /\ act.cookie = sign(secret, SessionBody)
    /\ clients = {}


\* ----------------------------------------------------------- token claims
HasError(o) == \E c \in Clients : \E i \in 1..Len(o[c]) : o[c][i].type = "error"

C22_StoreLoadRoundTrip ==
    [][act'.stored # NoTokens => loadTokens(config') = act'.stored]_vars

\* C23: OAuth token invariant.  Whenever an access token row exists an expiry
\* row exists; a refresh on session start never lowers the persisted
\* expires_at; and after a store refreshed_at <= expires_at.
C23_TokenInvariant ==
    [][/\ config'.claude_oauth_token # Absent => config'.claude_token_expires_at # NoExpiry
       /\ config' # config =>
             /\ config'.claude_token_expires_at >= config.claude_token_expires_at
             /\ config'.claude_token_refreshed_at <= config'.claude_token_expires_at]_vars

Blank(code) == \A i \in 1..Len(code) : code[i] = " "

SessionCookie(cookie) == secret.len >= 32 /\ cookie = sign(secret, SessionBody)

\* C25: route authorisation.  A public path is resolved whatever the cookie; any
\* other path without a valid signed session cookie is answered 302 to
\* /login?return_to=<encoded path and query> and is not served; with a valid
\* cookie and setup_complete not "true" a non-setup path is answered 302 to
\* /setup; otherwise the request is resolved.  /api/ws-ticket, /api/session and
\* /api/debug are never served without a valid session.
C25_RouteAuthorisation ==
    [][act'.name = "handle" =>
         LET path == act'.path
             answer == act'.response
         IN /\ IF Matches(path, PUBLIC_PATHS) THEN answer.served
               ELSE IF ~SessionCookie(act'.cookie)
               THEN /\ ~answer.served
                    /\ answer.status = 302
                    /\ answer.location =
                          << "/", "login", "?", "return_to", "=" >>
                             \o encodeURIComponent(path \o act'.search)
               ELSE IF config.setup_complete # Row("true") /\ ~Matches(path, SETUP_PATHS)
               THEN ~answer.served /\ answer.status = 302 /\ answer.location = << "/", "setup" >>
               ELSE answer.served
            /\ (path \in {<< "/", "api", "/", "ws", "-ticket" >>,
                          << "/", "api", "/", "session" >>,
                          << "/", "api", "/", "debug" >>} /\ answer.served)
                  => SessionCookie(act'.cookie)]_vars

\* The most recent min(n, RING_SIZE) of n numbered pushes, oldest first.
LastPushes(n) ==
    LET k == IF n < 200 THEN n ELSE 200
    IN [i \in 1..k |-> [tag |-> "t", msg |-> n - k + i]]

\* C26: the ring buffer.  The buffer never holds more than 200 entries: the
\* most recent min(n, 200) pushed since it was last empty, oldest first;
\* get(limit) returns the last min(limit, size) of them for every limit >= 0;
\* clear() leaves the buffer empty.
C26_RingBuffer ==
    /\ Len(ring) <= 200
    /\ ring = LastPushes(IF ring = << >> THEN 0 ELSE ring[Len(ring)].msg)
    /\ act.name = "getDebugLog" =>
          LET k == IF act.limit < Len(ring) THEN act.limit ELSE Len(ring)
          IN act.result = SubSeq(ring, Len(ring) - k + 1, Len(ring))
    /\ act.name = "clearDebugLog" => ring = << >>

\* C27: on a result record of the active session the in-memory total cost
\* becomes the result's cumulative cost, cost{totalUsd} with that value is
\* broadcast, and the session's row is updated: its cost_usd is that cost and
\* its turn_count the number of turns so far.
C27_ResultPersisted ==
    [][(act'.name = "result" /\ loops = {activeDbSessionId}) =>
         /\ totalCostUsd' = act'.cost
         /\ \A c \in clients :
               (readyState[c] = OPEN /\ ~sendRaises[c]) => out'[c] = << CostMsg(act'.cost) >>
         /\ db'[activeDbSessionId].turnCount = turnCount
         /\ db'[activeDbSessionId].costUsd = act'.cost]_vars

\* C28: when the start preconditions fail for a user message that arrived in
\* idle, done or error (no stored access token, sandbox not running), the
\* session manager goes to the error state.
C28_StartFailureSetsError ==
    [][act'.name = "start_failed" => state' = "error"]_vars

\* The step is an error leaving the start routine.
StartError(a) ==
    \/ a.name = "start_failed"
    \/ a.name = "startSession" /\ a.result = "InvalidState"
    \/ a.name = "first_message" /\ a.error # ""

\* C29: an error raised by the start routine (missing token, sandbox failure,
\* startSession refused, first sendMessage refused) is handed as exactly one
\* error event to the connection whose message started the routine, and
\* nothing is sent to any other connection.
C29_StartErrorToOriginOnly ==
    [][StartError(act') =>
         /\ Len(out'[act'.ws]) = 1
         /\ out'[act'.ws][1].type = "error"
         /\ \A d \in Clients \ {act'.ws} : out'[d] = << >>]_vars

\* A start error has just been sent while another open subscriber was listening.
C29_Witness ==
    /\ StartError(act)
    /\ out[act.ws] # << >>
    /\ \E d \in clients \ {act.ws} : readyState[d] = OPEN /\ handlers[d] /\ out[d] = << >>

\* C30: the start routine's startSession(token, wrapper_path) launches the
\* Agent with the wrapper as its executable, the OAuth token in its
\* environment as CLAUDE_CODE_OAUTH_TOKEN, the session's abort handle, and a
\* permission callback that routes to requestPermission.
C30_LaunchOptions ==
    [][(act'.name = "startSession" /\ act'.result = "started") =>
         /\ act'.options.pathToClaudeCodeExecutable = WRAPPER_PATH
         /\ act'.options.env.CLAUDE_CODE_OAUTH_TOKEN = act'.token
         /\ act'.options.abortController = "live"
         /\ abortController' = "live"
         /\ act'.options.canUseTool = "requestPermission"]_vars

\* C31: a permission request records the pending permission under its id with
\* the timer armed PERMISSION_TIMEOUT_MS ahead, makes the state
\* waiting_permission and hands every reachable subscriber session_state
\* {waiting_permission} and then the permission_request, and only then
\* suspends the tool call; a permission_response resolves a tool call only
\* when all of that has happened for its id.
C31_PermissionRoundTripOrder ==
    /\ [][act'.name = "canUseTool" =>
             /\ act'.id \notin pendingPermissions
             /\ act'.id \in pendingPermissions'
             /\ timers[act'.id] = NoTimer
             /\ timers'[act'.id] = 0
             /\ timers'[act'.id] < PERMISSION_TIMEOUT_MS
             /\ state' = "waiting_permission"
             /\ \A c \in Clients : Reaches(c) =>
                   out'[c] = << StateMsg("waiting_permission"),
                                PermissionRequestMsg(act'.id) >>
             /\ permResult'[act'.id] = "waiting"
             /\ resolveCalls'[act'.id] = 0]_vars
    /\ [][(act'.name = "permission_response" /\ permResult'[act'.id] # permResult[act'.id]) =>
             /\ act'.id \in pendingPermissions
             /\ timers[act'.id] # NoTimer
             /\ permResult[act'.id] = "waiting"]_vars

\* A permission request has just been broadcast to a reachable subscriber.
C31_Witness ==
    /\ act.name = "canUseTool"
    /\ state = "waiting_permission"
    /\ \E c \in Clients : Reaches(c) /\ Len(out[c]) = 2

\* C32: every step that changes the state hands each reachable subscriber
\* exactly one session_state event, carrying the new state, and no step hands
\* out a session_state event with any other state; so for every subscriber
\* registered and open since it subscribed, the last session_state event it
\* was handed carries the current state.
C32_StateSynchronised ==
    /\ [](\A c \in Clients : Reaches(c) => lastState[c] = state)
    /\ [][\A c \in Clients :
             (c \in clients' /\ readyState'[c] = OPEN /\ ~sendRaises'[c]) =>
                /\ state' # state => StateEvents(out'[c]) = << StateMsg(state') >>
                /\ \A i \in 1..Len(out'[c]) :
                      out'[c][i].type = "session_state" => out'[c][i].state = state'
          ]_vars

\* A reachable subscriber has just been handed the event of a state change
\* away from running.
C32_Witness ==
    /\ \E c \in Clients : Reaches(c) /\ lastState[c] = state /\ out[c] # << >>
    /\ state \in {"waiting_permission", "done", "error"}
    /\ act.name \in {"canUseTool", "loop_end", "loop_raise"}

\* The turns of the current session in the order sendMessage accepted them:
\* those the Agent has read, then those still buffered.
Accepted == delivered \o messageQueue
AcceptedTurn(a) == a.name \in {"message", "first_message"} /\ a.error = ""

\* C33: with any number of subscribers writing, an accepted sendMessage adds
\* its turn behind every turn accepted before it; a read takes the oldest
\* buffered turn and no other step moves a turn, so the Agent reads the turns
\* in the order they were accepted and each at most once.  A turn accepted
\* while the Agent awaits its next input resolves that await directly,
\* otherwise it is buffered; the Agent awaits only while the buffer is empty.
C33_InputQueueOrder ==
    /\ [](resolveNext => messageQueue = << >>)
    /\ [][AcceptedTurn(act') =>
             LET msg == [type |-> "user", content |-> act'.content,
                         session_id |-> enqueueUserMessage]
             IN /\ Accepted' = Append(Accepted, msg)
                /\ IF resolveNext
                   THEN delivered' = Append(delivered, msg) /\ ~resolveNext'
                   ELSE messageQueue' = Append(messageQueue, msg) /\ delivered' = delivered
          ]_vars
    /\ [][act'.name = "next" =>
             /\ Accepted' = Accepted
             /\ act'.got = "turn" =>
                   /\ delivered' = Append(delivered, Head(messageQueue))
                   /\ messageQueue' = Tail(messageQueue)
             /\ act'.got # "turn" => delivered' = delivered]_vars
    /\ [][(~AcceptedTurn(act') /\ act'.name \notin {"next", "startSession"}) =>
             UNCHANGED << delivered, messageQueue >>]_vars

\* With two subscribers connected the Agent has read the older of two
\* different turns, and the newer one is still buffered.
C33_Witness ==
    /\ act.name = "next"
    /\ act.got = "turn"
    /\ Len(delivered) = 1
    /\ Len(messageQueue) = 1
    /\ delivered[1].content # messageQueue[1].content
    /\ Cardinality(clients) = 2

\* C34: the step that finalises the session closes its input queue: a read
\* that is pending at that moment completes, and the queue is marked closed so
\* that every later read completes with end-of-stream.
C34_QueueClosedOnFinalise ==
    [][act'.name \in {"loop_end", "loop_raise"} => (~resolveNext' /\ closed')]_vars

\* C35: an interrupt that arrives in waiting_permission aborts the session's
\* abort handle; the Agent loop then stops, and the step in which it stops
\* resolves every pending permission with the session-ended deny and leaves
\* the state done or error; so a manager that is waiting_permission with its
\* handle aborted does not stay there: it reaches done or error.
C35_InterruptWhileWaiting ==
    /\ [][(act'.name = "interrupt" /\ state = "waiting_permission") =>
             (abortController' = "aborted" /\ loops' # {})]_vars
    /\ [][(act'.name \in {"loop_end", "loop_raise"} /\ act'.aborted) =>
             /\ \A id \in pendingPermissions : permResult'[id] = DenyEnded
             /\ pendingPermissions' = {}
             /\ state' \in {"done", "error"}]_vars
    /\ (state = "waiting_permission" /\ abortController = "aborted")
          ~> (state \in {"done", "error"})

\* The loop of an interrupted session has stopped while a permission was
\* pending, and the pending permission was denied.
C35_Witness ==
    /\ act.name \in {"loop_end", "loop_raise"}
    /\ act.aborted
    /\ \E id \in ToolUseIds : permResult[id] = DenyEnded
    /\ state \in {"done", "error"}

\* C36: the state is waiting_permission exactly when at least one permission
\* is pending, also while several requests are outstanding and only some of
\* them have been answered or have timed out.
C36_WaitingIffPending ==
    (state = "waiting_permission") <=> (pendingPermissions # {})

\* C37: while the state is running or waiting_permission the current
\* session's loop is live and has not been finalised: the enqueue handle is
\* the current session's and the abort handle is set, so no sendMessage fails
\* with 'No active session stream.'; and the state leaves idle, done or error
\* for running or waiting_permission only in a successful startSession, never
\* in a timer callback, a late permission_response or any other step.
C37_ActiveNeedsLiveLoop ==
    /\ [](Active(state) =>
             /\ activeDbSessionId \in loops
             /\ enqueueUserMessage = activeDbSessionId
             /\ abortController \in {"live", "aborted"})
    /\ [](act.name \in {"message", "first_message"} =>
             act.error # "No active session stream.")
    /\ [][(CanStart(state) /\ Active(state')) =>
             (act'.name = "startSession" /\ act'.result = "started")]_vars
    /\ [][(CanStart(state) /\ act'.name \in {"timeout", "permission_response", "tick"}) =>
             UNCHANGED << state, pendingPermissions, permGhost >>]_vars

\* A permission_response has arrived for a request that the end of the
\* session had already denied, and the state is still done or error.
C37_Witness ==
    /\ act.name = "permission_response"
    /\ permResult[act.id] = DenyEnded
    /\ state \in {"done", "error"}
    /\ loops = {}

\* C38: a start routine that was begun by a message frame in idle, done or
\* error and has waited for a token refresh ends, when it gets to
\* startSession, in one of two ways: it starts the session and its message
\* becomes the session's first turn, or a session started meanwhile by
\* another frame is active and the message is added to that session's input
\* queue behind the turns already accepted.
C38_ConcurrentLazyStart ==
    [][\A r \in refreshing \ refreshing' :
          act'.name = "startSession" =>
             \/ /\ act'.result = "started"
                /\ starting' = [ws |-> r.ws, content |-> r.content]
             \/ /\ Len(Accepted') = Len(Accepted) + 1
                /\ Accepted'[Len(Accepted')].content = r.content]_vars

\* C39: a turn accepted by sendMessage is not discarded silently: when the
\* Agent loop ends normally, so that no error event is sent to anyone, no
\* accepted turn is left unread in the session's input buffer.
C39_AcceptedIsDelivered ==
    [][act'.name = "loop_end" => messageQueue = << >>]_vars

\* C40: a subscriber that is registered while permissions are pending, with
\* a socket that is open and a send that works, is sent the permission_request
\* of every pending permission.
C40_LateSubscriberSeesRequest ==
    [][(act'.name = "Connect" /\ readyState'[act'.ws] = OPEN /\ ~sendRaises'[act'.ws]) =>
          \A id \in pendingPermissions :
             \E i \in 1..Len(out'[act'.ws]) :
                out'[act'.ws][i] = PermissionRequestMsg(id)]_vars

====
